---- MODULE Spec2Model ----
(***************************************************************************)
(* Model of the Python terminal emulator in src/bs.py (class Terminal).    *)
(*                                                                         *)
(* Strings are sequences of one-character strings, so that strip(),        *)
(* shlex.split(), str.lower(), os.path.join(), os.path.expanduser() and    *)
(* os.getcwd() are computed character by character.  The filesystem is a   *)
(* tree over the names "a", "b", "B" of depth at most MaxDepth; a node is  *)
(* the sequence of names from the root.  The process working directory     *)
(* (what os.chdir sets) is kept apart from Terminal.current_dir.           *)
(*                                                                         *)
(* Not modelled: symbolic links that lead somewhere, backslash escapes in  *)
(* shlex, file contents, terminal rendering of the prompt.                 *)
(***************************************************************************)
EXTENDS Integers, Sequences, FiniteSets, TLC

(* Bounds of the model. *)
MaxReads == 2
MaxDepth == 2

Names == {"a", "b", "B"}

\* ------------------------------------------------------------------------
\* Strings
\* ------------------------------------------------------------------------
S_root == <<"/">>
S_home == <<"/", "a">>

Last(s) == s[Len(s)]
Front(s) == SubSeq(s, 1, Len(s) - 1)

StartsWith(s, c) == Len(s) > 0 /\ s[1] = c

RECURSIVE LStrip(_)
LStrip(s) == IF Len(s) > 0 /\ s[1] = " " THEN LStrip(Tail(s)) ELSE s

RECURSIVE RStrip(_, _)
RStrip(s, c) == IF Len(s) > 0 /\ Last(s) = c THEN RStrip(Front(s), c) ELSE s

\* no stripping at all
strip_none(s) == s

\* str.strip() on the line returned by input()
strip(s) == RStrip(LStrip(s), " ")

LowerChar(c) ==
    CASE c = "C" -> "c" [] c = "D" -> "d" [] c = "E" -> "e" [] c = "X" -> "x"
      [] c = "I" -> "i" [] c = "A" -> "a" [] c = "B" -> "b"
      [] c = "T" -> "t" [] c = "L" -> "l" [] c = "S" -> "s"
      [] OTHER -> c

\* str.lower()
lower(s) == [i \in 1..Len(s) |-> LowerChar(s[i])]

\* ------------------------------------------------------------------------
\* shlex.split (posix mode, whitespace split, no comments)
\* ------------------------------------------------------------------------
Quotes == {"'", "\""}

RECURSIVE ReadTokens(_, _, _, _, _)
ReadTokens(s, i, state, token, acc) ==
    IF i > Len(s)
    THEN IF state \in Quotes
         THEN [ok |-> FALSE, args |-> <<>>]
         ELSE [ok |-> TRUE,
               args |-> IF state = "a" THEN Append(acc, token) ELSE acc]
    ELSE LET c == s[i] IN
         CASE state = " " ->
                IF c = " " THEN ReadTokens(s, i + 1, " ", <<>>, acc)
                ELSE IF c \in Quotes THEN ReadTokens(s, i + 1, c, <<>>, acc)
                ELSE ReadTokens(s, i + 1, "a", <<c>>, acc)
           [] state = "a" ->
                IF c = " " THEN ReadTokens(s, i + 1, " ", <<>>, Append(acc, token))
                ELSE IF c \in Quotes THEN ReadTokens(s, i + 1, c, token, acc)
                ELSE ReadTokens(s, i + 1, "a", Append(token, c), acc)
           [] OTHER ->
                IF c = state THEN ReadTokens(s, i + 1, "a", token, acc)
                ELSE ReadTokens(s, i + 1, state, Append(token, c), acc)

\* a split that falls back to whitespace splitting when a quote is left open
shlex_split_lenient(s) ==
    LET r == ReadTokens(s, 1, " ", <<>>, <<>>)
    IN IF r.ok THEN r
       ELSE ReadTokens(SelectSeq(s, LAMBDA c : c \notin Quotes), 1, " ", <<>>, <<>>)

shlex_split(s) == ReadTokens(s, 1, " ", <<>>, <<>>)

\* ------------------------------------------------------------------------
\* posixpath
\* ------------------------------------------------------------------------
isabs(p) == StartsWith(p, "/")

join(a, b) ==
    IF isabs(b) THEN b
    ELSE IF a = <<>> \/ Last(a) = "/" THEN a \o b
    ELSE a \o <<"/">> \o b

RECURSIVE FindSep(_, _)
FindSep(p, i) == IF i > Len(p) \/ p[i] = "/" THEN i ELSE FindSep(p, i + 1)

\* os.path.expanduser: "~" alone or before "/" is $HOME; "~name" names
\* another user, and the password database of the model has none.
expanduser(p) ==
    IF ~StartsWith(p, "~") THEN p
    ELSE LET i == FindSep(p, 2) IN
         IF i # 2 THEN p
         ELSE LET r == RStrip(S_home, "/") \o SubSeq(p, i, Len(p)) IN
              IF r = <<>> THEN S_root ELSE r

\* the components of a path between separators
RECURSIVE SplitSep(_, _, _, _)
SplitSep(p, i, cur, acc) ==
    IF i > Len(p) THEN Append(acc, cur)
    ELSE IF p[i] = "/" THEN SplitSep(p, i + 1, <<>>, Append(acc, cur))
    ELSE SplitSep(p, i + 1, Append(cur, p[i]), acc)

Components(p) == SplitSep(p, 1, <<>>, <<>>)

\* posixpath.split: (head, tail) around the last separator
RECURSIVE LastSep(_, _)
LastSep(p, i) == IF i = 0 \/ p[i] = "/" THEN i ELSE LastSep(p, i - 1)

path_split(p) ==
    LET i == LastSep(p, Len(p))
        head == SubSeq(p, 1, i)
        tail == SubSeq(p, i + 1, Len(p))
        h2 == RStrip(head, "/")
    IN [head |-> IF h2 = <<>> THEN head ELSE h2, tail |-> tail]

\* ------------------------------------------------------------------------
\* The operating system: directory tree and process working directory
\* ------------------------------------------------------------------------
Nodes == UNION {[1..n -> Names] : n \in 0..MaxDepth}

\* kind of a node: absent, directory, regular file, directory of mode 000,
\* symbolic link to a path that does not exist
Kinds == {"none", "dir", "file", "locked", "broken"}

\* A position of a path walk: a node, or (dead) a directory that was
\* removed while it was the process working directory.
Pos(n) == [n |-> n, dead |-> FALSE]
Nowhere == Pos(<<"?">>)

KindAt(fs, pos) ==
    IF pos.dead THEN "dir"
    ELSE IF pos.n \in Nodes THEN fs[pos.n] ELSE "none"

Children(fs, n) == {m \in Nodes : Len(m) = Len(n) + 1 /\ Front(m) = n /\ fs[m] # "none"}

ParentPos(fs, pos) ==
    IF pos.n = <<>> THEN pos
    ELSE LET q == Front(pos.n) IN [n |-> q, dead |-> pos.dead /\ fs[q] # "dir"]

ChildPos(pos, c) ==
    IF pos.dead THEN Nowhere
    ELSE IF Len(c) = 1 /\ c[1] \in Names THEN Pos(Append(pos.n, c[1]))
    ELSE Nowhere

\* Kernel path walk over the components comps[i..] starting at pos.
RECURSIVE Walk(_, _, _, _)
Walk(fs, pos, comps, i) ==
    IF i > Len(comps) THEN [err |-> "ok", pos |-> pos]
    ELSE LET c == comps[i]
             k == KindAt(fs, pos)
         IN IF k \in {"none", "broken"} THEN [err |-> "ENOENT", pos |-> pos]
            ELSE IF k = "file" THEN [err |-> "ENOTDIR", pos |-> pos]
            ELSE IF c = <<>> THEN Walk(fs, pos, comps, i + 1)
            ELSE IF k = "locked" THEN [err |-> "EACCES", pos |-> pos]
            ELSE IF c = <<".">> THEN Walk(fs, pos, comps, i + 1)
            ELSE IF c = <<".", ".">> THEN Walk(fs, ParentPos(fs, pos), comps, i + 1)
            ELSE Walk(fs, ChildPos(pos, c), comps, i + 1)

\* Resolution of a path string: from the root when absolute, else from the
\* process working directory.  The empty path is ENOENT.
Lookup(fs, oscwd, p) ==
    IF p = <<>> THEN [err |-> "ENOENT", pos |-> Nowhere]
    ELSE Walk(fs, IF isabs(p) THEN Pos(<<>>) ELSE oscwd, Components(p), 1)

\* trailing separators do not matter to mkdir(2) and rmdir(2)
NoTrail(p) == LET q == RStrip(p, "/") IN IF q = <<>> THEN p ELSE q

RECURSIVE NodeStr(_)
NodeStr(n) == IF n = <<>> THEN <<>> ELSE NodeStr(Front(n)) \o <<"/", Last(n)>>

\* os.getcwd(): the absolute path of the process working directory
os_getcwd(oscwd) ==
    IF oscwd.dead THEN [err |-> "ENOENT", path |-> <<>>]
    ELSE [err |-> "ok", path |-> IF oscwd.n = <<>> THEN S_root ELSE NodeStr(oscwd.n)]

\* os.chdir(p)
os_chdir(fs, oscwd, p) ==
    LET r == Lookup(fs, oscwd, p)
        k == KindAt(fs, r.pos)
    IN IF r.err # "ok" THEN [err |-> r.err, oscwd |-> oscwd]
       ELSE IF k \in {"none", "broken"} THEN [err |-> "ENOENT", oscwd |-> oscwd]
       ELSE IF k = "file" THEN [err |-> "ENOTDIR", oscwd |-> oscwd]
       ELSE IF k = "locked" THEN [err |-> "EACCES", oscwd |-> oscwd]
       ELSE [err |-> "ok", oscwd |-> r.pos]

\* os.mkdir(p)
os_mkdir(fs, oscwd, p) ==
    LET r == Lookup(fs, oscwd, NoTrail(p))
        k == KindAt(fs, r.pos)
    IN IF r.err # "ok" THEN [err |-> r.err, fs |-> fs]
       ELSE IF k # "none" THEN [err |-> "EEXIST", fs |-> fs]
       ELSE IF r.pos = Nowhere THEN [err |-> "ENOENT", fs |-> fs]
       ELSE IF r.pos.n \notin Nodes THEN [err |-> "ENAMETOOLONG", fs |-> fs]
       ELSE [err |-> "ok", fs |-> [fs EXCEPT ![r.pos.n] = "dir"]]

\* os.rmdir(p); removing the process working directory leaves the process
\* in a directory that no path names any more.
os_rmdir(fs, oscwd, p) ==
    LET q == NoTrail(p)
        r == Lookup(fs, oscwd, q)
        k == KindAt(fs, r.pos)
        last == Last(Components(q))
        same == [err |-> "ok", fs |-> fs, oscwd |-> oscwd]
    IN IF r.err # "ok" THEN [same EXCEPT !.err = r.err]
       ELSE IF last = <<".">> THEN [same EXCEPT !.err = "EINVAL"]
       ELSE IF last = <<".", ".">> THEN [same EXCEPT !.err = "ENOTEMPTY"]
       ELSE IF k = "none" \/ r.pos.dead THEN [same EXCEPT !.err = "ENOENT"]
       ELSE IF k \in {"file", "broken"} THEN [same EXCEPT !.err = "ENOTDIR"]
       ELSE IF r.pos.n = <<>> THEN [same EXCEPT !.err = "EBUSY"]
       ELSE IF Children(fs, r.pos.n) # {} THEN [same EXCEPT !.err = "ENOTEMPTY"]
       ELSE [err |-> "ok",
             fs |-> [fs EXCEPT ![r.pos.n] = "none"],
             oscwd |-> IF oscwd = r.pos THEN [oscwd EXCEPT !.dead = TRUE] ELSE oscwd]

\* os.path.exists / os.path.isdir (stat that follows links and swallows errors)
path_kind(fs, oscwd, p) ==
    LET r == Lookup(fs, oscwd, p)
    IN IF r.err # "ok" \/ KindAt(fs, r.pos) = "broken" THEN "none" ELSE KindAt(fs, r.pos)

path_exists(fs, oscwd, p) == path_kind(fs, oscwd, p) # "none"
path_isdir(fs, oscwd, p) == path_kind(fs, oscwd, p) \in {"dir", "locked"}

\* os.makedirs(name) without exist_ok
RECURSIVE os_makedirs_strict(_, _, _)
os_makedirs_strict(fs, oscwd, name) ==
    LET s1 == path_split(name)
        s2 == IF s1.tail = <<>> THEN path_split(s1.head) ELSE s1
        head == s2.head
        tail == s2.tail
        up == head # <<>> /\ tail # <<>> /\ ~path_exists(fs, oscwd, head)
        r == IF up THEN os_makedirs_strict(fs, oscwd, head) ELSE [err |-> "ok", fs |-> fs]
        m == os_mkdir(r.fs, oscwd, name)
    IN IF up /\ r.err \notin {"ok", "EEXIST"} THEN r
       ELSE IF up /\ tail = <<".">> THEN [err |-> "ok", fs |-> r.fs]
       ELSE [err |-> m.err, fs |-> m.fs]

\* os.makedirs(name, exist_ok=True)
RECURSIVE os_makedirs(_, _, _)
os_makedirs(fs, oscwd, name) ==
    LET s1 == path_split(name)
        s2 == IF s1.tail = <<>> THEN path_split(s1.head) ELSE s1
        head == s2.head
        tail == s2.tail
        up == head # <<>> /\ tail # <<>> /\ ~path_exists(fs, oscwd, head)
        r == IF up THEN os_makedirs(fs, oscwd, head) ELSE [err |-> "ok", fs |-> fs]
        m == os_mkdir(r.fs, oscwd, name)
    IN IF up /\ r.err \notin {"ok", "EEXIST"} THEN r
       ELSE IF up /\ tail = <<".">> THEN [err |-> "ok", fs |-> r.fs]
       ELSE IF m.err # "ok" /\ path_isdir(r.fs, oscwd, name) THEN [err |-> "ok", fs |-> r.fs]
       ELSE [err |-> m.err, fs |-> m.fs]

\* The platforms the interpreter runs on.  They number the error conditions
\* differently (errno.h); the path walk above is the same on both.
Platforms == {"linux", "darwin"}

\* OSError.errno: the errno value of an error condition on a platform
errno(platform, e) ==
    CASE e = "ENOENT" -> 2 [] e = "EACCES" -> 13 [] e = "EBUSY" -> 16
      [] e = "EEXIST" -> 17 [] e = "ENOTDIR" -> 20 [] e = "EINVAL" -> 22
      [] e = "ENAMETOOLONG" -> (IF platform = "linux" THEN 36 ELSE 63)
      [] e = "ENOTEMPTY" -> (IF platform = "linux" THEN 39 ELSE 66)
      [] OTHER -> 0

\* ------------------------------------------------------------------------
\* pathlib.Path
\* ------------------------------------------------------------------------
RECURSIVE JoinSep(_)
JoinSep(cs) ==
    IF cs = <<>> THEN <<>>
    ELSE IF Len(cs) = 1 THEN cs[1]
    ELSE cs[1] \o <<"/">> \o JoinSep(Tail(cs))

\* str(Path(p)): empty and "." components dropped, "." when nothing is left
Path(p) ==
    LET cs == SelectSeq(Components(p), LAMBDA c : c # <<>> /\ c # <<".">>)
    IN IF isabs(p) THEN S_root \o JoinSep(cs)
       ELSE IF cs = <<>> THEN <<".">> ELSE JoinSep(cs)

\* path.parent != path
HasParent(q) == q # S_root /\ q # <<".">>

\* ------------------------------------------------------------------------
\* class Terminal.  A handler maps the session record
\*   [fs, oscwd, current_dir, history, out, procs, platform, ret, exc]
\* to the session record after it; ret is the handler's return value, exc
\* the exception that leaves it ("" for none) and out the lines printed so
\* far in the current loop iteration.
\* ------------------------------------------------------------------------
Line(tag, text, n, m) == [tag |-> tag, text |-> text, n |-> n, m |-> m]

write(st, tag, text) == [st EXCEPT !.out = Append(@, Line(tag, text, 0, 0))]

return(st, v) == [st EXCEPT !.ret = v]

\* target_dir of handle_cd
cd_target(current_dir, args) ==
    IF Len(args) = 1 THEN expanduser(<<"~">>)
    ELSE LET t0 == args[2]
             t1 == IF StartsWith(t0, "~") THEN expanduser(t0) ELSE t0
         IN IF ~isabs(t1) THEN join(current_dir, t1) ELSE t1

\* handle_cd with current_dir assigned before os.chdir is tried
handle_cd_assign_first(st, args) ==
    LET target_dir == cd_target(st.current_dir, args)
        c == os_chdir(st.fs, st.oscwd, target_dir)
        g == os_getcwd(c.oscwd)
        moved == [st EXCEPT !.oscwd = c.oscwd]
        set == [st EXCEPT !.current_dir = target_dir]
    IN return(
         IF c.err = "ok" /\ g.err = "ok" THEN [moved EXCEPT !.current_dir = g.path]
         ELSE IF c.err = "ok" THEN write(moved, "cd: No such file or directory", target_dir)
         ELSE IF c.err = "ENOENT" THEN write(set, "cd: No such file or directory", target_dir)
         ELSE IF c.err = "EACCES" THEN write(set, "cd: Permission denied", target_dir)
         ELSE write(set, "cd: error", target_dir),
         TRUE)

\* handle_cd with current_dir = target_dir instead of os.getcwd()
handle_cd_keep_target(st, args) ==
    LET target_dir == cd_target(st.current_dir, args)
        c == os_chdir(st.fs, st.oscwd, target_dir)
    IN return(
         IF c.err = "ok" THEN [st EXCEPT !.oscwd = c.oscwd, !.current_dir = target_dir]
         ELSE IF c.err = "ENOENT" THEN write(st, "cd: No such file or directory", target_dir)
         ELSE IF c.err = "EACCES" THEN write(st, "cd: Permission denied", target_dir)
         ELSE write(st, "cd: error", target_dir),
         TRUE)

handle_cd(st, args) ==
    LET target_dir == cd_target(st.current_dir, args)
        c == os_chdir(st.fs, st.oscwd, target_dir)
        g == os_getcwd(c.oscwd)
        moved == [st EXCEPT !.oscwd = c.oscwd]
    IN return(
         IF c.err = "ok" /\ g.err = "ok" THEN [moved EXCEPT !.current_dir = g.path]
         ELSE IF c.err = "ok" THEN write(moved, "cd: No such file or directory", target_dir)
         ELSE IF c.err = "ENOENT" THEN write(st, "cd: No such file or directory", target_dir)
         ELSE IF c.err = "EACCES" THEN write(st, "cd: Permission denied", target_dir)
         ELSE write(st, "cd: error", target_dir),
         TRUE)

handle_pwd(st) == return(write(st, "text", st.current_dir), TRUE)

handle_help(st) == return(write(st, "help", <<>>), TRUE)

\* handle_clear that also forgets the history
handle_clear_wipes(st) ==
    return([st EXCEPT !.procs = Append(@, [args |-> << <<"c", "l", "e", "a", "r">> >>,
                                           cwd |-> os_getcwd(st.oscwd).path,
                                           via |-> "system"]),
                      !.history = <<>>],
           TRUE)

\* os.system('clear'): a shell child in the process working directory
handle_clear(st) ==
    return([st EXCEPT !.procs = Append(@, [args |-> << <<"c", "l", "e", "a", "r">> >>,
                                           cwd |-> os_getcwd(st.oscwd).path,
                                           via |-> "system"])],
           TRUE)

RECURSIVE history_rows(_, _, _)
history_rows(st, h, i) ==
    IF i > Len(h) THEN st
    ELSE history_rows([st EXCEPT !.out = Append(@, Line("history", h[i], i, 0))], h, i + 1)

handle_history(st) == return(history_rows(st, st.history, 1), TRUE)

RECURSIVE JoinSpace(_)
JoinSpace(ws) ==
    IF ws = <<>> THEN <<>>
    ELSE IF Len(ws) = 1 THEN ws[1]
    ELSE ws[1] \o <<" ">> \o JoinSpace(Tail(ws))

handle_echo(st, args) ==
    return(IF Len(args) > 1 THEN write(st, "text", JoinSpace(Tail(args)))
           ELSE write(st, "text", <<>>),
           TRUE)

handle_cat(st, args) ==
    IF Len(args) < 2 THEN return(write(st, "Usage: cat/type", <<>>), TRUE)
    ELSE LET filename == args[2]
             r == Lookup(st.fs, st.oscwd, filename)
             k == KindAt(st.fs, r.pos)
         IN return(
              IF r.err = "ENOENT" \/ (r.err = "ok" /\ k \in {"none", "broken"})
                THEN write(st, "File not found", filename)
              ELSE IF r.err = "EACCES" THEN write(st, "Permission denied", filename)
              ELSE IF r.err # "ok" \/ k # "file" THEN write(st, "Error reading file", filename)
              ELSE write(st, "content", NodeStr(r.pos.n)),
              TRUE)

handle_mkdir(st, args) ==
    IF Len(args) < 2 THEN return(write(st, "Usage: mkdir/md", <<>>), TRUE)
    ELSE LET dirname == args[2]
             r == os_makedirs(st.fs, st.oscwd, dirname)
         IN return(
              IF r.err = "ok" THEN write([st EXCEPT !.fs = r.fs], "Directory created", dirname)
              ELSE write([st EXCEPT !.fs = r.fs], "Error creating directory", dirname),
              TRUE)

handle_rmdir(st, args) ==
    IF Len(args) < 2 THEN return(write(st, "Usage: rmdir/rd", <<>>), TRUE)
    ELSE LET dirname == args[2]
             r == os_rmdir(st.fs, st.oscwd, dirname)
         IN return(
              IF r.err = "ok"
                THEN write([st EXCEPT !.fs = r.fs, !.oscwd = r.oscwd], "Directory removed", dirname)
              ELSE IF r.err = "ENOENT" THEN write(st, "Directory not found", dirname)
              ELSE IF errno(st.platform, r.err) = 39 THEN write(st, "Directory not empty", dirname)
              ELSE write(st, "Error removing directory", dirname),
              TRUE)

\* ------------------------------------------------------------------------
\* handle_dir
\* ------------------------------------------------------------------------
CharCode(c) == CASE c = "a" -> 97 [] c = "b" -> 98 [] c = "A" -> 65 [] c = "B" -> 66 [] OTHER -> 0

\* st_size of a regular file (the model has no file contents)
st_size(n) == Len(n) * 8

is_dir(fs, m) == fs[m] \in {"dir", "locked"}

\* item.stat() succeeds: it follows links and fails on one that leads nowhere
can_stat(fs, m) == fs[m] # "broken"

\* a sort key that compares the names as they are spelled
SortKey_cased(fs, m) == (IF is_dir(fs, m) THEN 0 ELSE 1000) + CharCode(Last(m))

\* the sort key (not x.is_dir(), x.name.lower()) as a number
SortKey(fs, m) == (IF is_dir(fs, m) THEN 0 ELSE 1000) + CharCode(LowerChar(Last(m)))

\* items.sort(key=...): ascending by key
RECURSIVE SortItems(_, _)
SortItems(fs, items) ==
    IF items = {} THEN <<>>
    ELSE LET x == CHOOSE m \in items : \A o \in items : SortKey(fs, m) <= SortKey(fs, o)
         IN <<x>> \o SortItems(fs, items \ {x})

\* the for loop over items with an entry that cannot be examined counted
\* as a file of size 0
RECURSIVE dir_rows_counting(_, _, _, _)
dir_rows_counting(st, items, i, tot) ==
    IF i > Len(items)
    THEN [st EXCEPT !.out = @ \o << Line("File(s)", <<>>, tot.file_count, tot.total_size),
                                     Line("Dir(s)", <<>>, tot.dir_count, 0) >>]
    ELSE LET item == items[i] IN
         IF ~can_stat(st.fs, item)
         THEN dir_rows_counting([st EXCEPT !.out = Append(@, Line("???", <<Last(item)>>, 0, 0))],
                                items, i + 1, [tot EXCEPT !.file_count = @ + 1])
         ELSE IF is_dir(st.fs, item)
         THEN dir_rows_counting([st EXCEPT !.out = Append(@, Line("<DIR>", <<Last(item)>>, 0, 0))],
                                items, i + 1, [tot EXCEPT !.dir_count = @ + 1])
         ELSE dir_rows_counting([st EXCEPT !.out = Append(@, Line("file", <<Last(item)>>, st_size(item), 0))],
                                items, i + 1,
                                [tot EXCEPT !.file_count = @ + 1, !.total_size = @ + st_size(item)])

\* the for loop over items: rows and running totals
RECURSIVE dir_rows(_, _, _, _)
dir_rows(st, items, i, tot) ==
    IF i > Len(items)
    THEN [st EXCEPT !.out = @ \o << Line("File(s)", <<>>, tot.file_count, tot.total_size),
                                     Line("Dir(s)", <<>>, tot.dir_count, 0) >>]
    ELSE LET item == items[i] IN
         IF ~can_stat(st.fs, item)
         THEN dir_rows([st EXCEPT !.out = Append(@, Line("???", <<Last(item)>>, 0, 0))],
                       items, i + 1, tot)
         ELSE IF is_dir(st.fs, item)
         THEN dir_rows([st EXCEPT !.out = Append(@, Line("<DIR>", <<Last(item)>>, 0, 0))],
                       items, i + 1, [tot EXCEPT !.dir_count = @ + 1])
         ELSE dir_rows([st EXCEPT !.out = Append(@, Line("file", <<Last(item)>>, st_size(item), 0))],
                       items, i + 1,
                       [tot EXCEPT !.file_count = @ + 1, !.total_size = @ + st_size(item)])

handle_dir(st, args) ==
    LET target_dir == IF Len(args) = 1 THEN st.current_dir ELSE args[2]
        path == Path(target_dir)
        r == Lookup(st.fs, st.oscwd, path)
        k == KindAt(st.fs, r.pos)
        g == os_getcwd(st.oscwd)
        absolute == IF isabs(path) THEN path
                    ELSE IF path = <<".">> THEN g.path ELSE join(g.path, path)
        header == write(st, "Directory of", absolute)
        parent == HasParent(path)
        listed == IF parent THEN write(header, "<DIR>", <<".", ".">>) ELSE header
        items == SortItems(st.fs, Children(st.fs, r.pos.n))
        zero == [file_count |-> 0, dir_count |-> IF parent THEN 1 ELSE 0, total_size |-> 0]
    IN return(
         IF r.err = "EACCES" THEN write(st, "Access denied", target_dir)
         ELSE IF r.err # "ok" \/ k \in {"none", "broken"} THEN write(st, "Directory not found", target_dir)
         ELSE IF k = "file" THEN write(st, "Not a directory", target_dir)
         ELSE IF ~isabs(path) /\ g.err # "ok" THEN write(st, "Error listing directory", target_dir)
         ELSE IF k = "locked" THEN write(header, "Access denied", target_dir)
         ELSE IF r.pos.dead THEN dir_rows(listed, <<>>, 1, zero)
         ELSE dir_rows(listed, items, 1, zero),
         TRUE)

\* ------------------------------------------------------------------------
\* execute_external_command.  ext is what the operating system and the
\* child do: "notfound" (no such program), "oserror" (any other launch
\* failure), "exit0" / "exit1" (the child runs and exits), "rmcwd" (the
\* child runs and removes its own working directory, as rmdir "$PWD"),
\* "sigint" (the child runs and SIGINT ends the wait for it).
\* A child cannot be started in a working directory that does not exist.
\* ------------------------------------------------------------------------
ExtOutcomes == {"notfound", "oserror", "exit0", "exit1", "rmcwd", "sigint"}

\* execute_external_command that returns False when the program is not found
execute_external_command_stop(st, args, ext) ==
    LET cwd == st.current_dir
        c == os_chdir(st.fs, st.oscwd, cwd)
        rm == os_rmdir(st.fs, st.oscwd, cwd)
        spawn == [st EXCEPT !.procs = Append(@, [args |-> args, cwd |-> cwd, via |-> "subprocess"])]
    IN IF ext = "notfound" \/ c.err = "ENOENT" THEN return(write(st, "Command not found", args[1]), FALSE)
       ELSE IF ext = "oserror" \/ c.err # "ok" THEN return(write(st, "Error executing command", args[1]), TRUE)
       ELSE IF ext = "rmcwd" /\ rm.err = "ok" THEN return([spawn EXCEPT !.fs = rm.fs, !.oscwd = rm.oscwd], TRUE)
       ELSE IF ext = "sigint" THEN return([spawn EXCEPT !.exc = "KeyboardInterrupt"], TRUE)
       ELSE return(spawn, TRUE)

\* execute_external_command without cwd=: the child inherits the working
\* directory of the process
execute_external_command_inherit(st, args, ext) ==
    LET g == os_getcwd(st.oscwd)
        rm == os_rmdir(st.fs, st.oscwd, g.path)
        spawn == [st EXCEPT !.procs = Append(@, [args |-> args, cwd |-> g.path, via |-> "subprocess"])]
    IN return(
         IF ext = "notfound" THEN write(st, "Command not found", args[1])
         ELSE IF ext = "oserror" THEN write(st, "Error executing command", args[1])
         ELSE IF ext = "rmcwd" /\ rm.err = "ok" THEN [spawn EXCEPT !.fs = rm.fs, !.oscwd = rm.oscwd]
         ELSE IF ext = "sigint" THEN [spawn EXCEPT !.exc = "KeyboardInterrupt"]
         ELSE spawn,
         TRUE)

execute_external_command(st, args, ext) ==
    LET cwd == st.current_dir
        c == os_chdir(st.fs, st.oscwd, cwd)
        rm == os_rmdir(st.fs, st.oscwd, cwd)
        spawn == [st EXCEPT !.procs = Append(@, [args |-> args, cwd |-> cwd, via |-> "subprocess"])]
    IN return(
         IF ext = "notfound" \/ c.err = "ENOENT" THEN write(st, "Command not found", args[1])
         ELSE IF ext = "oserror" \/ c.err # "ok" THEN write(st, "Error executing command", args[1])
         ELSE IF ext = "rmcwd" /\ rm.err = "ok" THEN [spawn EXCEPT !.fs = rm.fs, !.oscwd = rm.oscwd]
         ELSE IF ext = "sigint" THEN [spawn EXCEPT !.exc = "KeyboardInterrupt"]
         ELSE spawn,
         TRUE)

\* ------------------------------------------------------------------------
\* execute_command
\* ------------------------------------------------------------------------
w_exit == <<"e", "x", "i", "t">>
w_cd == <<"c", "d">>
w_pwd == <<"p", "w", "d">>
w_help == <<"h", "e", "l", "p">>
w_clear == <<"c", "l", "e", "a", "r">>
w_cls == <<"c", "l", "s">>
w_history == <<"h", "i", "s", "t", "o", "r", "y">>
w_echo == <<"e", "c", "h", "o">>
w_dir == <<"d", "i", "r">>
w_ls == <<"l", "s">>
w_cat == <<"c", "a", "t">>
w_type == <<"t", "y", "p", "e">>
w_mkdir == <<"m", "k", "d", "i", "r">>
w_md == <<"m", "d">>
w_rmdir == <<"r", "m", "d", "i", "r">>
w_rd == <<"r", "d">>

\* Terminal.builtin_commands
builtin_commands ==
    {w_cd, w_pwd, w_exit, w_help, w_clear, w_cls, w_history, w_echo,
     w_dir, w_ls, w_cat, w_type, w_mkdir, w_md, w_rmdir, w_rd}

\* execute_command in which exit with arguments is not the exit built-in
execute_command_bare_exit(st, user_input, ext) ==
    LET sp == shlex_split(user_input)
        args == sp.args
        command == lower(args[1])
    IN IF ~sp.ok THEN return(write(st, "Error: Invalid command syntax", <<>>), TRUE)
       ELSE IF args = <<>> THEN return(st, TRUE)
       ELSE IF command = w_exit /\ Len(args) = 1 THEN return(st, FALSE)
       ELSE IF command = w_cd THEN handle_cd(st, args)
       ELSE IF command = w_pwd THEN handle_pwd(st)
       ELSE IF command = w_help THEN handle_help(st)
       ELSE IF command \in {w_clear, w_cls} THEN handle_clear(st)
       ELSE IF command = w_history THEN handle_history(st)
       ELSE IF command = w_echo THEN handle_echo(st, args)
       ELSE IF command \in {w_dir, w_ls} THEN handle_dir(st, args)
       ELSE IF command \in {w_cat, w_type} THEN handle_cat(st, args)
       ELSE IF command \in {w_mkdir, w_md} THEN handle_mkdir(st, args)
       ELSE IF command \in {w_rmdir, w_rd} THEN handle_rmdir(st, args)
       ELSE execute_external_command(st, args, ext)

execute_command(st, user_input, ext) ==
    LET sp == shlex_split(user_input)
        args == sp.args
        command == lower(args[1])
    IN IF ~sp.ok THEN return(write(st, "Error: Invalid command syntax", <<>>), TRUE)
       ELSE IF args = <<>> THEN return(st, TRUE)
       ELSE IF command = w_exit THEN return(st, FALSE)
       ELSE IF command = w_cd THEN handle_cd(st, args)
       ELSE IF command = w_pwd THEN handle_pwd(st)
       ELSE IF command = w_help THEN handle_help(st)
       ELSE IF command \in {w_clear, w_cls} THEN handle_clear(st)
       ELSE IF command = w_history THEN handle_history(st)
       ELSE IF command = w_echo THEN handle_echo(st, args)
       ELSE IF command \in {w_dir, w_ls} THEN handle_dir(st, args)
       ELSE IF command \in {w_cat, w_type} THEN handle_cat(st, args)
       ELSE IF command \in {w_mkdir, w_md} THEN handle_mkdir(st, args)
       ELSE IF command \in {w_rmdir, w_rd} THEN handle_rmdir(st, args)
       ELSE execute_external_command(st, args, ext)

\* ------------------------------------------------------------------------
\* The lines typed at the prompt
\* ------------------------------------------------------------------------
InputLines == {
    <<>>,
    <<" ", " ">>,
    <<" ", "p", "w", "d", " ">>,
    <<"c", "d">>,
    <<"c", "d", " ", "b">>,
    <<"C", "d", " ", ".", ".">>,
    <<"c", "d", " ", "/", "a", "/", "b">>,
    <<"c", "d", " ", "~", "/", "b">>,
    <<"c", "d", " ", "/", "b">>,
    <<"m", "k", "d", "i", "r", " ", "b">>,
    <<"m", "d", " ", "b", "/", "a">>,
    <<"r", "m", "d", "i", "r", " ", "b">>,
    <<"r", "d", " ", "b", "/", "a">>,
    <<"r", "m", "d", "i", "r", " ", "/", "a", "/", "b">>,
    <<"r", "d", " ", "/", "a">>,
    <<"E", "X", "I", "T", " ", "n", "o", "w">>,
    <<"'", "e", "x", "i", "t", "'">>,
    <<"e", "c", "h", "o", " ", "'", "a">>,
    <<"h", "i", "s", "t", "o", "r", "y">>,
    <<"f", "o", "o">>,
    <<"l", "s">>,
    <<"l", "s", " ", ".">>,
    <<"l", "s", " ", "~">>,
    <<"c", "a", "t", " ", "/", "b">>,
    <<"h", "e", "l", "p">>,
    <<"c", "l", "s">>,
    <<"e", "c", "h", "o", " ", "a", " ", " ", "b">>,
    <<"m", "d">>,
    <<"r", "d">>,
    <<"t", "y", "p", "e">>
}

\* ------------------------------------------------------------------------
\* State
\* ------------------------------------------------------------------------
VARIABLES
    fs,           \* the directory tree: [Nodes -> Kinds]
    oscwd,        \* the working directory of the process (os.chdir / os.getcwd)
    current_dir,  \* Terminal.current_dir
    history,      \* Terminal.history
    out,          \* what the current loop iteration printed
    procs,        \* the child processes started so far
    platform,     \* the platform the interpreter runs on
    pc,           \* "loop" inside while True, "done" after it
    stdin,        \* the lines input() has returned so far
    event         \* what the last input() did: "line", "interrupt", "eof"

vars == <<fs, oscwd, current_dir, history, out, procs, platform, pc, stdin, event>>

Tree(dirs, files, locked) ==
    [n \in Nodes |-> IF n \in dirs \/ n = <<>> THEN "dir"
                     ELSE IF n \in files THEN "file"
                     ELSE IF n \in locked THEN "locked" ELSE "none"]

\* the directory trees the program is started in
InitTrees == {
    Tree({<<"a">>, <<"a", "b">>}, {<<"b">>}, {}),
    Tree({<<"a">>}, {<<"a", "a">>}, {<<"b">>}),
    [Tree({<<"a">>, <<"a", "b">>}, {<<"a", "a">>}, {}) EXCEPT ![<<"a", "B">>] = "broken"]
}

\* __init__: current_dir = os.getcwd()
Init ==
    /\ fs \in InitTrees
    /\ \E n \in Nodes : fs[n] = "dir" /\ oscwd = Pos(n)
    /\ current_dir = os_getcwd(oscwd).path
    /\ history = <<>>
    /\ out = <<>>
    /\ procs = <<>>
    /\ platform \in Platforms
    /\ pc = "loop"
    /\ stdin = <<>>
    /\ event = "start"

\* print_prompt: the working directory with the home prefix shown as ~
IsPrefix(a, b) == Len(a) <= Len(b) /\ SubSeq(b, 1, Len(a)) = a

print_prompt(st) ==
    LET home_dir == expanduser(<<"~">>)
        display_dir == IF IsPrefix(home_dir, st.current_dir)
                       THEN <<"~">> \o SubSeq(st.current_dir, Len(home_dir) + 1, Len(st.current_dir))
                       ELSE st.current_dir
    IN write(st, "prompt", display_dir)

Session ==
    [fs |-> fs, oscwd |-> oscwd, current_dir |-> current_dir, history |-> history,
     out |-> <<>>, procs |-> procs, platform |-> platform, ret |-> TRUE, exc |-> ""]

\* run_line that does not append a line equal to the last history entry
run_line_dedup(st, line, ext) ==
    LET user_input == strip(line)
        appended == IF st.history # <<>> /\ Last(st.history) = user_input THEN st
                    ELSE [st EXCEPT !.history = Append(@, user_input)]
        done == execute_command(appended, user_input, ext)
    IN IF user_input = <<>> THEN st
       ELSE IF done.exc = "KeyboardInterrupt" THEN write(done, "^C", <<>>)
       ELSE IF ~done.ret THEN write(done, "Goodbye!", <<>>)
       ELSE done

\* the body of while True once input() has returned line
run_line(st, line, ext) ==
    LET user_input == strip(line)
        appended == [st EXCEPT !.history = Append(@, user_input)]
        done == execute_command(appended, user_input, ext)
    IN IF user_input = <<>> THEN st
       ELSE IF done.exc = "KeyboardInterrupt" THEN write(done, "^C", <<>>)
       ELSE IF ~done.ret THEN write(done, "Goodbye!", <<>>)
       ELSE done

Commit(st) ==
    /\ fs' = st.fs
    /\ oscwd' = st.oscwd
    /\ current_dir' = st.current_dir
    /\ history' = st.history
    /\ out' = st.out
    /\ procs' = st.procs
    /\ UNCHANGED platform

\* one iteration of the loop in which input() returns a line
ReadLine(line, ext) ==
    /\ pc = "loop"
    /\ Len(stdin) < MaxReads
    /\ \E st \in {run_line(print_prompt(Session), line, ext)} :
         /\ Commit(st)
         /\ pc' = IF st.ret THEN "loop" ELSE "done"
    /\ stdin' = Append(stdin, line)
    /\ event' = "line"

\* KeyboardInterrupt handled like EOFError: break
ReadInterrupt_break ==
    /\ pc = "loop"
    /\ Commit(write(write(print_prompt(Session), "^C", <<>>), "Goodbye!", <<>>))
    /\ pc' = "done"
    /\ event' = "interrupt"
    /\ UNCHANGED stdin

\* input() raises KeyboardInterrupt: print ^C and continue
ReadInterrupt ==
    /\ pc = "loop"
    /\ Commit(write(print_prompt(Session), "^C", <<>>))
    /\ pc' = "loop"
    /\ event' = "interrupt"
    /\ UNCHANGED stdin

\* input() raises EOFError: break
ReadEOF ==
    /\ pc = "loop"
    /\ Commit(write(print_prompt(Session), "Goodbye!", <<>>))
    /\ pc' = "done"
    /\ event' = "eof"
    /\ UNCHANGED stdin

\* the lines that execute_command hands to execute_external_command; the
\* outcome of a launch bears on no other line
ExternalLines ==
    {line \in InputLines :
       LET sp == shlex_split(strip(line))
       IN sp.ok /\ sp.args # <<>> /\ lower(sp.args[1]) \notin builtin_commands}

ExtOf(line) == IF line \in ExternalLines THEN ExtOutcomes ELSE {"exit0"}

Next ==
    \/ \E line \in InputLines : \E ext \in ExtOf(line) : ReadLine(line, ext)
    \/ ReadInterrupt
    \/ ReadEOF

Spec == Init /\ [][Next]_vars

TypeOK ==
    /\ fs \in [Nodes -> Kinds]
    /\ pc \in {"loop", "done"}
    /\ platform \in Platforms
    /\ Len(history) <= Len(stdin)

\* ------------------------------------------------------------------------
\* Properties
\* ------------------------------------------------------------------------
\* a step of the loop in which input() returned a line
LineRead == Len(stdin') = Len(stdin) + 1 /\ event' = "line"

\* the tokens of a line as typed, and its command word
ArgsOf(line) == shlex_split(strip(line)).args
CmdOf(line) ==
    LET sp == shlex_split(strip(line))
    IN IF sp.ok /\ sp.args # <<>> THEN lower(sp.args[1]) ELSE <<>>

\* the session working directory is an absolute path of an existing directory
CwdValid == isabs(current_dir) /\ path_isdir(fs, oscwd, current_dir)

\* C1: after every loop iteration the session working directory is an
\* absolute path that names a directory that exists in the filesystem.
C1_CwdAlwaysExists == CwdValid

\* C2: when cd fails (os.chdir on the resolved target raises), the session
\* working directory is what it was before the command and the loop goes on.
CdFails(line) ==
    os_chdir(fs, oscwd, cd_target(current_dir, ArgsOf(line))).err # "ok"

C2_FailedCdKeepsCwd ==
    [][(LineRead /\ CmdOf(Last(stdin')) = w_cd /\ CdFails(Last(stdin')))
         => (current_dir' = current_dir /\ pc' = "loop")]_vars

C2_Witness ==
    /\ event = "line" /\ pc = "loop"
    /\ CmdOf(Last(stdin)) = w_cd
    /\ Last(out).tag \in {"cd: No such file or directory", "cd: Permission denied", "cd: error"}

\* C3: after a cd that succeeds, pwd prints the resolved target (home, the
\* tilde-expanded argument, the argument joined to the previous working
\* directory, or the absolute argument) in normal form: without "." and
\* ".." components and without empty components.
L_pwd == <<" ", "p", "w", "d", " ">>

CdLines == {line \in InputLines : CmdOf(line) = w_cd}

RECURSIVE NormComps(_, _, _)
NormComps(cs, i, acc) ==
    IF i > Len(cs) THEN acc
    ELSE IF cs[i] = <<>> \/ cs[i] = <<".">> THEN NormComps(cs, i + 1, acc)
    ELSE IF cs[i] = <<".", ".">>
      THEN NormComps(cs, i + 1, IF acc = <<>> THEN acc ELSE Front(acc))
    ELSE NormComps(cs, i + 1, Append(acc, cs[i]))

\* the normal form of an absolute path
normpath(p) == S_root \o JoinSep(NormComps(Components(p), 1, <<>>))

\* what pwd prints when it is typed right after line
PwdAfter(line) ==
    LET s1 == run_line(print_prompt(Session), line, "exit0")
        s2 == run_line(print_prompt([s1 EXCEPT !.out = <<>>]), L_pwd, "exit0")
    IN Last(s2.out).text

CdTarget(line) == cd_target(current_dir, ArgsOf(line))

\* the session after the step
SessionAfter ==
    [fs |-> fs', oscwd |-> oscwd', current_dir |-> current_dir', history |-> history',
     out |-> <<>>, procs |-> procs', platform |-> platform', ret |-> TRUE, exc |-> ""]

\* what pwd prints when it is typed in session st
PwdIn(st) == Last(run_line(print_prompt(st), L_pwd, "exit0").out).text

C3_PwdAfterCdNormalForm ==
    [][(LineRead /\ CmdOf(Last(stdin')) = w_cd /\ ~CdFails(Last(stdin')))
         => PwdIn(SessionAfter) = normpath(CdTarget(Last(stdin')))]_vars

\* C3 as stated: whenever the target exists and is a directory, pwd prints
\* the resolved target itself.
C3_PwdAfterCdIsTarget ==
    pc = "loop" =>
      \A line \in CdLines :
        path_isdir(fs, oscwd, CdTarget(line)) => PwdAfter(line) = CdTarget(line)

C3_Witness ==
    /\ Len(stdin) = 2
    /\ stdin[1] = <<"C", "d", " ", ".", ".">>
    /\ stdin[2] = L_pwd
    /\ out[2] = Line("text", <<"/", "a">>, 0, 0)

\* C4: the history is exactly the non-empty trimmed lines read so far, one
\* entry per line, in the order read, whether or not their execution failed.
Trimmed(lines) == [i \in 1..Len(lines) |-> strip(lines[i])]
NonEmpty(s) == s # <<>>

C4_HistoryIsInputLog == history = SelectSeq(Trimmed(stdin), NonEmpty)

C4_Witness ==
    /\ Len(stdin) = 2
    /\ stdin[1] = <<"c", "d", " ", "/", "b">>
    /\ stdin[2] = L_pwd
    /\ out = << Line("prompt", current_dir, 0, 0), Line("text", current_dir, 0, 0) >>
    /\ history = << stdin[1], w_pwd >>

\* the lines whose command word is exit
ExitLines == {line \in InputLines : CmdOf(line) = w_exit}

\* C5: a dispatch ends the loop only if the first token of the line,
\* lowercased, is "exit": after any other line, whatever the handler or the
\* external program did, execute_command returned True and the loop goes on.
C5_OnlyExitReturnsFalse ==
    [][(LineRead /\ pc' = "done") => CmdOf(Last(stdin')) = w_exit]_vars

C5_Witness ==
    /\ pc = "loop" /\ event = "line"
    /\ Len(history) = 2
    /\ CmdOf(stdin[1]) = w_rmdir
    /\ Last(out).tag = "Command not found"

\* C6: nothing happens once the loop is left; a line whose first token,
\* lowercased, is "exit" leaves the loop from any state and with any
\* arguments, and so does end of input.
C6_ExitAndEofTerminate ==
    [][ /\ pc = "loop"
        /\ \A line \in ExitLines : ~run_line(print_prompt(Session), line, "exit0").ret
        /\ (LineRead /\ CmdOf(Last(stdin')) = w_exit) => pc' = "done"
        /\ event' = "eof" => pc' = "done" ]_vars

C6_Witness ==
    /\ pc = "done" /\ event = "line"
    /\ Len(stdin) = 2
    /\ stdin[2] = <<"E", "X", "I", "T", " ", "n", "o", "w">>
    /\ Last(out).tag = "Goodbye!"

\* the session state outside the history and the printed output
Untouched == fs' = fs /\ oscwd' = oscwd /\ current_dir' = current_dir /\ procs' = procs

\* C7: an interrupt during input() ends neither the session nor anything
\* else: working directory, history, filesystem and input consumed are as
\* before, "^C" is printed and the loop is again at the prompt.
C7_InterruptOnlyAbortsRead ==
    [][event' = "interrupt" =>
         /\ pc' = "loop"
         /\ history' = history
         /\ stdin' = stdin
         /\ Untouched
         /\ Last(out').tag = "^C"]_vars

C7_Witness ==
    /\ event = "interrupt" /\ pc = "loop"
    /\ Len(history) = 1
    /\ Len(stdin) = 1
    /\ Last(out).tag = "^C"

\* C8: a line in which a quote is opened and not closed is appended to the
\* history as typed (trimmed), prints the syntax diagnostic and nothing
\* else, changes neither working directory nor filesystem, starts no
\* process, and leaves the loop running.
RECURSIVE OpenQuote(_, _, _)
OpenQuote(s, i, q) ==
    IF i > Len(s) THEN q # ""
    ELSE IF q = "" THEN OpenQuote(s, i + 1, IF s[i] \in Quotes THEN s[i] ELSE "")
    ELSE OpenQuote(s, i + 1, IF s[i] = q THEN "" ELSE q)

UnterminatedLines == {line \in InputLines : OpenQuote(line, 1, "")}

C8_UnterminatedQuoteIsNoOp ==
    [][(LineRead /\ Last(stdin') \in UnterminatedLines) =>
         /\ history' = Append(history, strip(Last(stdin')))
         /\ out' = << print_prompt(Session).out[1],
                      Line("Error: Invalid command syntax", <<>>, 0, 0) >>
         /\ Untouched
         /\ pc' = "loop"]_vars

C8_Witness ==
    /\ event = "line" /\ pc = "loop"
    /\ Len(stdin) = 2
    /\ stdin[2] = <<"e", "c", "h", "o", " ", "'", "a">>
    /\ history = stdin
    /\ Last(out).tag = "Error: Invalid command syntax"

\* C9: a line made of blanks only (or of nothing) is not added to the
\* history, dispatches nothing (only the prompt is printed), and leaves
\* working directory, filesystem and processes as they were.
BlankLines == {line \in InputLines : \A i \in 1..Len(line) : line[i] = " "}

C9_BlankLineIsNoOp ==
    [][(LineRead /\ Last(stdin') \in BlankLines) =>
         /\ history' = history
         /\ out' = print_prompt(Session).out
         /\ Untouched
         /\ pc' = "loop"]_vars

C9_Witness ==
    /\ event = "line" /\ pc = "loop"
    /\ Len(stdin) = 2
    /\ stdin[2] = <<" ", " ">>
    /\ history = <<stdin[1]>>
    /\ Len(out) = 1

\* C10: mkdir x then rmdir x.  The names tried: relative and absolute, of
\* one and of two components, with a trailing slash, and ".".
PathArgs ==
    { <<"b">>, <<"b", "/", "a">>, <<"b", "/">>, <<".">>,
      <<"/", "b">>, <<"/", "a", "/", "b">>, <<"/", "b", "/", "a">> }

MkdirThenRmdir(x) ==
    LET s1 == handle_mkdir(Session, <<w_mkdir, x>>)
        s2 == handle_rmdir([s1 EXCEPT !.out = <<>>], <<w_rmdir, x>>)
    IN [mk |-> Last(s1.out).tag, rm |-> Last(s2.out).tag, fs |-> s2.fs, oscwd |-> s2.oscwd]

\* x does not exist yet, or names an empty directory
AbsentOrEmptyDir(x) ==
    LET r == Lookup(fs, oscwd, NoTrail(x))
        k == KindAt(fs, r.pos)
    IN \/ r.err # "ok"
       \/ k = "none"
       \/ (k \in {"dir", "locked"} /\ ~r.pos.dead /\ Children(fs, r.pos.n) = {})

\* the last component of x is a name, and the directory that is to hold x
\* exists and an entry x can be made in it
ParentHolds(x) ==
    LET r == Lookup(fs, oscwd, NoTrail(x))
    IN /\ Last(Components(NoTrail(x))) \notin {<<>>, <<".">>, <<".", ".">>}
       /\ r.err = "ok"
       /\ r.pos.n \in Nodes

\* the states in which the loop reads another line
CanRead == pc = "loop" /\ Len(stdin) < MaxReads

\* C10 (amended): when x ends in a name, the parent directory of x exists
\* and x is absent or an empty directory, mkdir x and rmdir x both succeed
\* and the filesystem is as it was before the two commands except that x
\* does not exist.
C10_MkdirRmdirRestores ==
    CanRead =>
      \A x \in PathArgs :
        (ParentHolds(x) /\ AbsentOrEmptyDir(x)) =>
          LET r == MkdirThenRmdir(x) IN
            /\ r.mk = "Directory created"
            /\ r.rm = "Directory removed"
            /\ r.fs = [fs EXCEPT ![Lookup(fs, oscwd, NoTrail(x)).pos.n] = "none"]

\* C10 as stated: for any x that is absent or an empty directory, both
\* commands succeed and no directory is left over.
C10_MkdirRmdirNoResidue ==
    pc = "loop" =>
      \A x \in PathArgs :
        AbsentOrEmptyDir(x) =>
          LET r == MkdirThenRmdir(x) IN
            /\ r.mk = "Directory created"
            /\ r.rm = "Directory removed"
            /\ \A n \in Nodes : is_dir(r.fs, n) => is_dir(fs, n)
            /\ ~path_exists(r.fs, r.oscwd, x)

C10_Witness ==
    /\ stdin = << <<"m", "k", "d", "i", "r", " ", "b">>, <<"r", "m", "d", "i", "r", " ", "b">> >>
    /\ oscwd = Pos(<<"a">>)
    /\ fs = Tree({<<"a">>}, {<<"a", "a">>}, {<<"b">>})
    /\ Last(out) = Line("Directory removed", <<"b">>, 0, 0)

\* the lines that reach handle_rmdir with a directory name
RmdirLines ==
    {line \in InputLines : CmdOf(line) \in {w_rmdir, w_rd} /\ Len(ArgsOf(line)) >= 2}

\* x names an existing directory that has entries
NonEmptyDir(x) ==
    LET r == Lookup(fs, oscwd, x)
    IN /\ r.err = "ok"
       /\ KindAt(fs, r.pos) \in {"dir", "locked"}
       /\ ~r.pos.dead
       /\ Children(fs, r.pos.n) # {}

\* C11: rmdir on an existing directory that is not empty prints "Directory
\* not empty" (never "Error removing directory"), on every platform, and
\* leaves the filesystem as it was.
C11_NonEmptyRmdirSaysNotEmpty ==
    [][(LineRead /\ Last(stdin') \in RmdirLines /\ NonEmptyDir(ArgsOf(Last(stdin'))[2]))
         => (Last(out').tag = "Directory not empty" /\ fs' = fs)]_vars

\* the lines that reach handle_dir
DirLines == {line \in InputLines : CmdOf(line) \in {w_dir, w_ls}}

\* the directory a listing line names: the argument, or the session
\* working directory when there is none
DirArg(line) == IF Len(ArgsOf(line)) = 1 THEN current_dir ELSE ArgsOf(line)[2]

ListedPos(line) == Lookup(fs, oscwd, DirArg(line)).pos

\* the step printed a whole listing
Listed == LineRead /\ Last(stdin') \in DirLines /\ Last(out').tag = "Dir(s)"

\* C12: a listing of an empty directory, named in any way, ends with
\* 0 File(s), 0 bytes and with 1 Dir(s) when the directory is not the
\* filesystem root, 0 Dir(s) when it is.
C12_EmptyListingCounts ==
    [][(Listed /\ Children(fs, ListedPos(Last(stdin')).n) = {}) =>
         LET k == Len(out')
             n == ListedPos(Last(stdin')).n
         IN /\ out'[k - 1] = Line("File(s)", <<>>, 0, 0)
            /\ out'[k] = Line("Dir(s)", <<>>, IF n = <<>> THEN 0 ELSE 1, 0)]_vars

\* the lines that give a path to a built-in
PathLines ==
    {line \in InputLines :
       /\ CmdOf(line) \in {w_cd, w_dir, w_ls, w_cat, w_type, w_mkdir, w_md, w_rmdir, w_rd}
       /\ Len(ArgsOf(line)) >= 2}

\* the Path Resolver: a leading ~ becomes the home directory, and what is
\* not absolute then is joined against the session working directory
Resolve(x) ==
    LET t == IF StartsWith(x, "~") THEN S_home \o Tail(x) ELSE x
    IN IF isabs(t) THEN t ELSE join(current_dir, t)

\* the same command given the resolved path
Resolved(line) == ArgsOf(line)[1] \o <<" ">> \o Resolve(ArgsOf(line)[2])

\* what a command did with the path it acted on: how it ended and the
\* entries it showed (messages repeat the path as typed, and the ".." row
\* depends on the spelling of the path)
IsEntry(l) ==
    \/ l.tag \in {"file", "content"}
    \/ (l.tag = "<DIR>" /\ l.text # <<".", ".">>)

ActedOn(o) == [last |-> Last(o).tag, entries |-> SelectSeq(o, IsEntry)]

\* C13: every built-in that takes a path acts on the path the Path Resolver
\* gives for its argument: the command has the effect and the outcome of the
\* same command given the resolved path.
C13_BuiltinsUseResolver ==
    [][(LineRead /\ Last(stdin') \in PathLines) =>
         LET r == run_line(print_prompt(Session), Resolved(Last(stdin')), "exit0")
         IN /\ fs' = r.fs
            /\ oscwd' = r.oscwd
            /\ current_dir' = r.current_dir
            /\ ActedOn(out') = ActedOn(r.out)]_vars

\* the child process subprocess.run starts for a line
Child(line) == [args |-> ArgsOf(line), cwd |-> current_dir, via |-> "subprocess"]

\* C14: a line whose first token is no built-in starts at most one child,
\* with the tokens of the line as its arguments and the session working
\* directory as its working directory; whether the child exits with status
\* zero or not, is not found or cannot be started, the loop goes on, the
\* session working directory is as before and the history has the line
\* appended by the loop and nothing else.
C14_LauncherKeepsSession ==
    [][(LineRead /\ Last(stdin') \in ExternalLines) =>
         /\ procs' \in {procs, Append(procs, Child(Last(stdin')))}
         /\ (Last(out').tag \in {"Command not found", "Error executing command"}
               => procs' = procs)
         /\ pc' = "loop"
         /\ current_dir' = current_dir
         /\ history' = Append(history, strip(Last(stdin')))]_vars

C14_Witness ==
    /\ stdin = << <<"c", "d", " ", "b">>, <<"f", "o", "o">> >>
    /\ pc = "loop"
    /\ current_dir = <<"/", "a", "/", "b">>
    /\ procs = << [args |-> << <<"f", "o", "o">> >>, cwd |-> current_dir, via |-> "subprocess"] >>
    /\ Len(out) = 1

\* the lines dispatched to a built-in other than exit
BuiltinLines == {line \in InputLines : CmdOf(line) \in builtin_commands \ {w_exit}}

\* C15: a built-in other than cd leaves the session working directory as
\* it was, and every built-in, cd included, leaves the history as the loop
\* made it: the history before the line with the trimmed line appended.
C15_OnlyCdMovesOnlyLoopLogs ==
    [][(LineRead /\ Last(stdin') \in BuiltinLines) =>
         /\ (CmdOf(Last(stdin')) # w_cd => current_dir' = current_dir)
         /\ history' = Append(history, strip(Last(stdin')))]_vars

C15_Witness ==
    /\ stdin = << <<"c", "d", " ", "/", "a", "/", "b">>, <<"h", "i", "s", "t", "o", "r", "y">> >>
    /\ current_dir = <<"/", "a", "/", "b">>
    /\ history = stdin
    /\ out[3] = Line("history", stdin[2], 2, 0)

\* the rows of a listing: the lines printed for "..", for directories, for
\* other entries and for entries that cannot be examined
IsRow(l) == l.tag \in {"<DIR>", "file", "???"}
IsParentRow(l) == l = Line("<DIR>", <<".", ".">>, 0, 0)
Rows(o) == SelectSeq(o, IsRow)

\* row k is not after row l in the order (not a directory, lowercase name)
RowLeq(k, l) ==
    \/ k.tag = "<DIR>" /\ l.tag # "<DIR>"
    \/ /\ (k.tag = "<DIR>") = (l.tag = "<DIR>")
       /\ CharCode(LowerChar(k.text[1])) <= CharCode(LowerChar(l.text[1]))

\* C16: in a listing every entry of the directory has one row; the ".." row,
\* if there is one, is the first row; the rows after it have the directories
\* first and, among the directories and among the others, the names in
\* ascending order without regard to case.
C16_ListingOrder ==
    [][Listed =>
         LET rows == Rows(out')
             real == SelectSeq(rows, LAMBDA l : ~IsParentRow(l))
         IN /\ \A i \in 1..Len(rows) : IsParentRow(rows[i]) => i = 1
            /\ \A i, j \in 1..Len(real) : i < j => RowLeq(real[i], real[j])
            /\ Len(real) = Cardinality(Children(fs, ListedPos(Last(stdin')).n))
            /\ {l.text[1] : l \in {real[i] : i \in 1..Len(real)}}
                 = {Last(m) : m \in Children(fs, ListedPos(Last(stdin')).n)}]_vars

C16_Witness ==
    /\ event = "line" /\ Last(stdin) = <<"l", "s">>
    /\ current_dir = <<"/", "a">>
    /\ Rows(out) = << Line("<DIR>", <<".", ".">>, 0, 0),
                      Line("<DIR>", <<"b">>, 0, 0),
                      Line("file", <<"a">>, 16, 0),
                      Line("???", <<"B">>, 0, 0) >>

RECURSIVE SumSizes(_)
SumSizes(ms) ==
    IF ms = {} THEN 0
    ELSE LET m == CHOOSE x \in ms : TRUE IN st_size(m) + SumSizes(ms \ {m})

\* C17: the summary of a listing gives, as File(s), the number of entries
\* that can be examined and are no directories, with the sum of their sizes
\* as bytes, and as Dir(s) the number of entries that can be examined and
\* are directories, plus one if the ".." row was printed; an entry that
\* cannot be examined has a row with its name and is in neither count.
C17_ListingTotals ==
    [][Listed =>
         LET k == Len(out')
             ch == Children(fs, ListedPos(Last(stdin')).n)
             files == {m \in ch : can_stat(fs, m) /\ ~is_dir(fs, m)}
             dirs == {m \in ch : can_stat(fs, m) /\ is_dir(fs, m)}
             up == IF \E i \in 1..k : IsParentRow(out'[i]) THEN 1 ELSE 0
         IN /\ out'[k - 1] = Line("File(s)", <<>>, Cardinality(files), SumSizes(files))
            /\ out'[k] = Line("Dir(s)", <<>>, Cardinality(dirs) + up, 0)
            /\ \A m \in ch \ (files \cup dirs) :
                 \E i \in 1..k : out'[i] = Line("???", <<Last(m)>>, 0, 0)]_vars

C17_Witness ==
    /\ event = "line" /\ Last(stdin) = <<"l", "s">>
    /\ fs[<<"a", "B">>] = "broken" /\ fs[<<"a", "a">>] = "file" /\ fs[<<"a", "b">>] = "dir"
    /\ oscwd = Pos(<<"a">>)
    /\ \E i \in 1..Len(out) : out[i] = Line("???", <<"B">>, 0, 0)
    /\ out[Len(out) - 1] = Line("File(s)", <<>>, 1, 16)
    /\ out[Len(out)] = Line("Dir(s)", <<>>, 2, 0)

\* C18: between commands the working directory of the process is the
\* directory the session working directory names: os.getcwd() gives
\* current_dir, and "." (against which the operating system resolves the
\* relative paths of dir, cat, mkdir and rmdir) and current_dir lead to the
\* same place.
C18_ProcessCwdIsSessionCwd ==
    pc = "loop" =>
      LET here == Lookup(fs, oscwd, <<".">>)
          there == Lookup(fs, oscwd, current_dir)
      IN /\ os_getcwd(oscwd) = [err |-> "ok", path |-> current_dir]
         /\ here.err = "ok" /\ there.err = "ok"
         /\ here.pos = there.pos

====
